---- MODULE Spec2Model ----
(***************************************************************************)
(* The leveled, per-subsystem logging core of source/common/common/logger.h *)
(* (spdlog branch): the Registry of Loggers, the Loggable mixin, the        *)
(* SpdLogStream construct-append-destruct idiom, the backend's level        *)
(* filter, and the optionally locking stderr sink.                          *)
(***************************************************************************)
EXTENDS Integers, Sequences, FiniteSets, TLC

\* ------------------------------------------------------------------ bounds
\* Logging threads of the concurrent specification.
NumThreads == 2
\* operator<< calls per log statement.
MaxAppends == 2
\* Log statements per thread.
MaxCalls == 2
\* Distinct BasicLockable objects a caller may hand to initialize.
NumLocks == 2

\* --------------------------------------------------------------- constants
\* logger.h:25-32, the severities of the glog-style macros.
SPD_ONLY_TRACE == 1
SPD_ONLY_DEBUG == 2
INFO == 3
WARNING == 4
ERROR == 5
FATAL == 6

\* ALL_LOGGER_IDS, logger.h:41-60: admin = 0 ... upstream = 18.
NumIds == 19
Ids == 0 .. (NumIds - 1)
\* Id::filter, the Loggable<Id::filter> of log_macros_test.cc.
IdFilter == 7
\* Id::admin and Id::upstream, the first and the last Id.
IdAdmin == 0
IdUpstream == NumIds - 1

\* spdlog::level::level_enum, the type of Logger::setLevel's argument.
LvlTrace == 0
LvlDebug == 1
LvlInfo == 2
LvlWarn == 3
LvlErr == 4
LvlCritical == 5
LvlOff == 6
Levels == LvlTrace .. LvlOff

\* log_severity_ is an int: the six named values and one past them.
Severities == SPD_ONLY_TRACE .. (FATAL + 1)

Threads == 1 .. NumThreads
Locks == 1 .. NumLocks
NoLock == 0
NoRef == 0
NoSink == 0

\* --------------------------------------------------------------- registry
\* Registry::getSink(): static std::shared_ptr<LockingStderrSink> sink(new
\* LockingStderrSink()); return sink. The function-local static is initialized
\* by the first call, under the language's guard; s is the static (NoSink
\* before the first call), n the sinks constructed so far;
\* <<returned instance, static, sinks constructed>>.
\* (mutations: the local is not static; the first call returns the pointer
\* before it is set)
getSinkFresh(s, n) == <<n + 1, n + 1, n + 1>>

getSinkUnset(s, n) ==
    IF s # NoSink THEN <<s, s, n>> ELSE <<NoSink, n + 1, n + 1>>

getSink(s, n) ==
    IF s # NoSink THEN <<s, s, n>> ELSE <<n + 1, n + 1, n + 1>>

\* Registry::getLog(id): the Logger at the Id's position of all_loggers_
\* (a reference into the vector: the 1-based position stands for the address).
getLog(id) == id + 1

\* Loggable<id>::log(): static Logger& instance = Registry::getLog(id), one
\* static per instantiation of the template; <<returned reference, statics>>.
\* (mutation: one static shared by every instantiation)
LoggableLogShared(inst, id) ==
    IF \E j \in Ids : inst[j] # NoRef
    THEN <<inst[CHOOSE j \in Ids : inst[j] # NoRef], inst>>
    ELSE <<getLog(id), [inst EXCEPT ![id] = getLog(id)]>>

LoggableLog(inst, id) ==
    IF inst[id] # NoRef
    THEN <<inst[id], inst>>
    ELSE <<getLog(id), [inst EXCEPT ![id] = getLog(id)]>>

\* Logger::setLevel(level): logger_->set_level(level), on the referenced Logger.
\* (mutations: the level lands on the next Logger; the backend logger is
\* replaced by a new one without the name; a torn store)
setLevelOther(loggers, ref, lvl) ==
    [loggers EXCEPT ![(ref % NumIds) + 1].level = lvl]

setLevelRecreate(loggers, ref, lvl) ==
    [loggers EXCEPT ![ref] = [name |-> 0, level |-> lvl, sink |-> @.sink]]

setLevelTorn(loggers, ref, lvl) ==
    [loggers EXCEPT ![ref].level = IF @ > lvl THEN lvl + 1 ELSE lvl]

setLevel(loggers, ref, lvl) ==
    [loggers EXCEPT ![ref].level = lvl]

\* LockingStderrSink::setLock(lock): lock_ = &lock.
\* (mutations: the lock is not stored; only the first lock is stored)
setLockDropped(cur, lock) == cur

setLockOnce(cur, lock) == IF cur = NoLock THEN lock ELSE cur

setLock(cur, lock) == lock

\* Registry::initialize(log_level, lock): the lock goes to the shared sink and
\* every Logger of all_loggers_ gets log_level.
initializeLevels(loggers, lvl) ==
    [i \in DOMAIN loggers |-> [loggers[i] EXCEPT !.level = lvl]]

\* ------------------------------------------------------------ SpdLogStream
\* std::ostringstream << int: the decimal digits, most significant first.
Digit(d) ==
    CASE d = 0 -> "0" [] d = 1 -> "1" [] d = 2 -> "2" [] d = 3 -> "3"
      [] d = 4 -> "4" [] d = 5 -> "5" [] d = 6 -> "6" [] d = 7 -> "7"
      [] d = 8 -> "8" [] OTHER -> "9"

RECURSIVE ToText(_)
ToText(n) ==
    IF n < 10 THEN <<Digit(n)>> ELSE ToText(n \div 10) \o <<Digit(n % 10)>>

\* operator<<(T&& t): stream_ << t.
\* (mutation: the text is put in front)
StreamAppendFront(stream, v) == ToText(v) \o stream

StreamAppend(stream, v) == stream \o ToText(v)

\* ~SpdLogStream(): the switch on log_severity_; the sequence of backend
\* emission calls it makes, each by its spdlog level.
\* (mutations: missing breaks; no default branch; no case ERROR; WARNING
\* sent to info)
DtorFallthrough(sev) ==
    CASE sev = SPD_ONLY_TRACE -> <<LvlTrace, LvlDebug>>
      [] sev = SPD_ONLY_DEBUG -> <<LvlDebug, LvlInfo>>
      [] sev = INFO -> <<LvlInfo, LvlWarn>>
      [] sev = WARNING -> <<LvlWarn, LvlCritical>>
      [] sev = ERROR -> <<LvlCritical, LvlTrace>>
      [] OTHER -> <<LvlTrace>>

DtorNoDefault(sev) ==
    CASE sev = SPD_ONLY_TRACE -> <<LvlTrace>>
      [] sev = SPD_ONLY_DEBUG -> <<LvlDebug>>
      [] sev = INFO -> <<LvlInfo>>
      [] sev = WARNING -> <<LvlWarn>>
      [] sev = ERROR -> <<LvlCritical>>
      [] OTHER -> <<>>

DtorErrorDefault(sev) ==
    CASE sev = SPD_ONLY_TRACE -> <<LvlTrace>>
      [] sev = SPD_ONLY_DEBUG -> <<LvlDebug>>
      [] sev = INFO -> <<LvlInfo>>
      [] sev = WARNING -> <<LvlWarn>>
      [] OTHER -> <<LvlTrace>>

DtorWarnAsInfo(sev) ==
    CASE sev = SPD_ONLY_TRACE -> <<LvlTrace>>
      [] sev = SPD_ONLY_DEBUG -> <<LvlDebug>>
      [] sev = INFO -> <<LvlInfo>>
      [] sev = WARNING -> <<LvlInfo>>
      [] sev = ERROR -> <<LvlCritical>>
      [] OTHER -> <<LvlTrace>>

Dtor(sev) ==
    CASE sev = SPD_ONLY_TRACE -> <<LvlTrace>>
      [] sev = SPD_ONLY_DEBUG -> <<LvlDebug>>
      [] sev = INFO -> <<LvlInfo>>
      [] sev = WARNING -> <<LvlWarn>>
      [] sev = ERROR -> <<LvlCritical>>
      [] OTHER -> <<LvlTrace>>

\* The backend's filter, spdlog::logger::should_log: one atomic read of the
\* Logger's level.
should_log(msgLevel, loggerLevel) == msgLevel >= loggerLevel

\* The calls of a destructor that pass the filter, in order.
Passing(calls, loggerLevel) ==
    SelectSeq(calls, LAMBDA c : should_log(c, loggerLevel))

\* Thread::OptionalLockGuard(lock_): the lock it takes, none for a null lock_.
\* (mutation: the guard is built on no lock)
GuardNone(lock) == NoLock

Guard(lock) == lock

\* ------------------------------------------------------------------ macros
\* LOG_TO_OBJECT(LOG_OBJECT, LEVEL): SpdLogStream(LOG_OBJECT, LEVEL).
LOG_TO_OBJECT(level) == level

\* VLOG_TO_OBJECT(LOG_OBJECT, LEVEL):
\* SpdLogStream(LOG_OBJECT, (LEVEL == 1) ? SPD_ONLY_DEBUG : SPD_ONLY_TRACE).
\* (mutation: the two branches exchanged)
VLOG_TO_OBJECT_Swapped(level) ==
    IF level = 1 THEN SPD_ONLY_TRACE ELSE SPD_ONLY_DEBUG

VLOG_TO_OBJECT(level) ==
    IF level = 1 THEN SPD_ONLY_DEBUG ELSE SPD_ONLY_TRACE

\* The convenience macros: what each expands to, as LOG_TYPE, LEVEL and the
\* context of its text; under NDEBUG the trace and debug forms expand to nothing.
MacroNames ==
    {"log_trace", "log_debug", "conn_log_trace", "conn_log_debug", "conn_log_info",
     "stream_log_trace", "stream_log_debug", "stream_log_info"}

Expansion(type, level, ctx) == [type |-> type, level |-> level, ctx |-> ctx]

MacroExpansion(m, ndebug) ==
    CASE m = "log_trace" ->
            IF ndebug THEN Expansion("none", 0, "none") ELSE Expansion("VLOG", 2, "none")
      [] m = "log_debug" ->
            IF ndebug THEN Expansion("none", 0, "none") ELSE Expansion("VLOG", 1, "none")
      [] m = "conn_log_trace" ->
            IF ndebug THEN Expansion("none", 0, "none") ELSE Expansion("VLOG", 2, "conn")
      [] m = "conn_log_debug" ->
            IF ndebug THEN Expansion("none", 0, "none") ELSE Expansion("VLOG", 1, "conn")
      [] m = "conn_log_info" -> Expansion("LOG", INFO, "conn")
      [] m = "stream_log_trace" ->
            IF ndebug THEN Expansion("none", 0, "none") ELSE Expansion("VLOG", 2, "stream")
      [] m = "stream_log_debug" ->
            IF ndebug THEN Expansion("none", 0, "none") ELSE Expansion("VLOG", 1, "stream")
      [] OTHER -> Expansion("LOG", INFO, "stream")

\* LOG_TYPE##_TO_OBJECT(LOG_OBJECT, LEVEL): the severity the stream is built with.
MacroSeverity(e) ==
    IF e.type = "VLOG" THEN VLOG_TO_OBJECT(e.level) ELSE LOG_TO_OBJECT(e.level)

\* fmt::format(format, args...): each "{}" of the format is replaced by the
\* text of the next argument; a text is the sequence of its characters, and
\* "{}" is one element of a format.
RECURSIVE fmt_format(_, _)
fmt_format(f, args) ==
    IF f = <<>> THEN <<>>
    ELSE IF Head(f) = "{}"
         THEN ToText(Head(args)) \o fmt_format(Tail(f), Tail(args))
         ELSE <<Head(f)>> \o fmt_format(Tail(f), args)

\* conn_log: fmt::format("[C{}] " FORMAT, (CONNECTION).id(), args...).
\* (mutation: the id is passed after the arguments)
conn_log_IdLast(format, id, args) ==
    fmt_format(<<"[", "C", "{}", "]", " ">> \o format, args \o <<id>>)

conn_log(format, id, args) ==
    fmt_format(<<"[", "C", "{}", "]", " ">> \o format, <<id>> \o args)

\* stream_log: fmt::format("[C{}][S{}] " FORMAT, (STREAM).connectionId(),
\* (STREAM).streamId(), args...).
stream_log(format, cid, sid, args) ==
    fmt_format(<<"[", "C", "{}", "]", "[", "S", "{}", "]", " ">> \o format,
               <<cid, sid>> \o args)

\* The text a macro's fmt::format call yields, by the context of the macro.
MacroText(ctx, format, cid, sid, args) ==
    CASE ctx = "conn" -> conn_log(format, cid, args)
      [] ctx = "stream" -> stream_log(format, cid, sid, args)
      [] OTHER -> fmt_format(format, args)

\* operator<<(T&& t) for a std::string: stream_ << t.
StreamAppendText(stream, text) == stream \o text

\* std::cerr << chunk: a stream whose badbit is set takes nothing more, and a
\* failing device sets it; std::cerr's exception mask is empty, so no
\* ios_base::failure is thrown; <<cerr, badbit, thrown>>.
\* (mutation: the failure is thrown)
CerrPutThrows(out, bad, chunk, fails) ==
    IF bad \/ fails THEN <<out, TRUE, TRUE>> ELSE <<Append(out, chunk), FALSE, FALSE>>

CerrPut(out, bad, chunk, fails) ==
    IF bad \/ fails THEN <<out, TRUE, FALSE>> ELSE <<Append(out, chunk), FALSE, FALSE>>

\* ------------------------------------------------------------------- state
VARIABLES
    all_loggers_,   \* Registry::all_loggers_: sequence of [name, level, sink]
    instance,       \* Loggable<id>::log()'s static reference, NoRef before first use
    lock_,          \* LockingStderrSink::lock_, NoLock for nullptr
    mutex,          \* owner thread of each BasicLockable, 0 when free
    pc,             \* where each thread's log statement stands
    rec,            \* each thread's SpdLogStream and what became of it
    ncalls,         \* log statements each thread has completed
    cerr,           \* std::cerr: the chunks written, each by its writer
    lastInit,       \* the arguments of the last Registry::initialize and whether
                    \* no setLevel followed it; <<>> before the first
    requested,      \* per Logger, the level its last set_level was asked to store
    sink,           \* getSink()'s static pointer, NoSink before the first call
    nsinks,         \* LockingStderrSink objects constructed so far
    got,            \* what each thread's own call of getSink() returned
    badbit          \* std::cerr's error state

vars == <<all_loggers_, instance, lock_, mutex, pc, rec, ncalls, cerr, lastInit,
          requested, sink, nsinks, got, badbit>>

NullRec ==
    [id |-> 0, logger_ |-> NoRef, log_severity_ |-> 0, stream_ |-> <<>>,
     appended |-> <<>>, conv |-> 0, lvl0 |-> 0, changed |-> FALSE,
     exit |-> "none", calls |-> <<>>, pending |-> <<>>, sunk |-> 0,
     line |-> <<>>, guard |-> NoLock, attached |-> NoLock, seen |-> 0,
     via |-> NoSink, macro |-> "", vlevel |-> 0, text |-> <<>>,
     format |-> <<>>, cid |-> 0, sid |-> 0, args |-> <<>>, threw |-> FALSE]

\* Logger::Logger(name): a new backend logger of that name on the sink that
\* Registry::getSink() returns, at the backend's default level.
LoggerCtor(id, snk) == [name |-> id, level |-> LvlInfo, sink |-> snk]

\* One step of the construction of all_loggers_: the Logger of the next Id in
\* declaration order; <<all_loggers_, getSink's static, sinks constructed>>.
PushLogger(loggers, s, n) ==
    LET r == getSink(s, n) IN
    <<Append(loggers, LoggerCtor(Len(loggers), r[1])), r[2], r[3]>>

\* The construction of all_loggers_ carried to its end.
RECURSIVE StaticInitFrom(_, _, _)
StaticInitFrom(loggers, s, n) ==
    IF Len(loggers) = NumIds THEN <<loggers, s, n>>
    ELSE LET r == PushLogger(loggers, s, n) IN StaticInitFrom(r[1], r[2], r[3])

\* What no construction has touched yet.
InitRest ==
    /\ instance = [i \in Ids |-> NoRef]
    /\ lock_ = NoLock
    /\ mutex = [k \in Locks |-> 0]
    /\ pc = [t \in Threads |-> "idle"]
    /\ rec = [t \in Threads |-> NullRec]
    /\ ncalls = [t \in Threads |-> 0]
    /\ cerr = <<>>
    /\ lastInit = <<>>
    /\ requested = [i \in 1 .. NumIds |-> LvlInfo]
    /\ got = [t \in Threads |-> NoSink]
    /\ badbit = FALSE

\* Registry::all_loggers_ is built once, one Logger per Id in declaration order.
Init ==
    /\ LET r == StaticInitFrom(<<>>, NoSink, 0) IN
         /\ all_loggers_ = r[1]
         /\ sink = r[2]
         /\ nsinks = r[3]
    /\ InitRest

\* ----------------------------------------------------------------- actions
\* LOG(LEVEL) in a Loggable<id> class: log(), then SpdLogStream(logger, LEVEL).
Ctor(t, id, sev) ==
    /\ pc[t] = "idle"
    /\ ncalls[t] < MaxCalls
    /\ LET r == LoggableLog(instance, id) IN
         /\ instance' = r[2]
         /\ rec' = [rec EXCEPT ![t] =
                [NullRec EXCEPT !.id = id, !.logger_ = r[1], !.log_severity_ = sev,
                                !.lvl0 = all_loggers_[r[1]].level,
                                !.seen = Len(all_loggers_)]]
    /\ pc' = [pc EXCEPT ![t] = "open"]
    /\ UNCHANGED <<all_loggers_, lock_, mutex, ncalls, cerr, lastInit, requested, sink, nsinks, got, badbit>>

\* stream << v: the argument's text conversion runs and its text is appended.
Shift(t, v) ==
    /\ pc[t] = "open"
    /\ Len(rec[t].appended) < MaxAppends
    /\ rec' = [rec EXCEPT ![t].stream_ = StreamAppend(@, v),
                          ![t].appended = Append(@, v),
                          ![t].conv = @ + 1]
    /\ UNCHANGED <<all_loggers_, instance, lock_, mutex, pc, ncalls, cerr, lastInit, requested, sink, nsinks, got, badbit>>

\* The stream leaves scope (by fall-through, by return, or unwound by an
\* exception thrown from an argument's conversion) and ~SpdLogStream runs: the
\* switch, and in each backend call the level filter. What passes goes to the sink.
ScopeExit(t, how) ==
    /\ pc[t] = "open"
    /\ LET r == rec[t]
           calls == Dtor(r.log_severity_)
           pass == Passing(calls, all_loggers_[r.logger_].level)
       IN /\ rec' = [rec EXCEPT ![t].exit = how,
                                ![t].conv = IF how = "throw" THEN @ + 1 ELSE @,
                                ![t].calls = calls,
                                ![t].pending = pass]
          /\ pc' = [pc EXCEPT ![t] = IF pass = <<>> THEN "done" ELSE "sink"]
    /\ UNCHANGED <<all_loggers_, instance, lock_, mutex, ncalls, cerr, lastInit, requested, sink, nsinks, got, badbit>>

\* LockingStderrSink: OptionalLockGuard guard(lock_), blocking while the lock is held.
SinkLock(t) ==
    /\ pc[t] = "sink"
    /\ LET g == Guard(lock_) IN
         /\ g # NoLock => mutex[g] = 0
         /\ mutex' = IF g # NoLock THEN [mutex EXCEPT ![g] = t] ELSE mutex
         /\ rec' = [rec EXCEPT ![t].guard = g, ![t].attached = lock_,
                               ![t].via = all_loggers_[rec[t].logger_].sink]
    /\ pc' = [pc EXCEPT ![t] = "msg"]
    /\ UNCHANGED <<all_loggers_, instance, lock_, ncalls, cerr, lastInit, requested, sink, nsinks, got, badbit>>

\* One insertion into std::cerr while the sink holds its guard. An exception
\* leaving the sink unwinds the guard and leaves ~SpdLogStream, which ends the
\* process.
SinkPut(t, part, fails) ==
    LET r == CerrPut(cerr, badbit, <<t, part>>, fails) IN
    /\ cerr' = r[1]
    /\ badbit' = r[2]
    /\ IF r[3]
       THEN /\ pc' = [pc EXCEPT ![t] = "terminated"]
            /\ mutex' = IF rec[t].guard # NoLock
                        THEN [mutex EXCEPT ![rec[t].guard] = 0] ELSE mutex
            /\ rec' = [rec EXCEPT ![t].threw = TRUE, ![t].guard = NoLock]
       ELSE IF part = "msg"
       THEN /\ pc' = [pc EXCEPT ![t] = "eol"]
            /\ mutex' = mutex
            /\ rec' = [rec EXCEPT ![t].line =
                         <<Head(rec[t].pending), all_loggers_[rec[t].logger_].name,
                           rec[t].stream_>>]
       ELSE /\ pc' = [pc EXCEPT ![t] =
                         IF Tail(rec[t].pending) = <<>> THEN "done" ELSE "sink"]
            /\ mutex' = IF rec[t].guard # NoLock
                        THEN [mutex EXCEPT ![rec[t].guard] = 0] ELSE mutex
            /\ rec' = [rec EXCEPT ![t].pending = Tail(@),
                                  ![t].sunk = @ + 1,
                                  ![t].guard = NoLock]
    /\ UNCHANGED <<all_loggers_, instance, lock_, ncalls, lastInit, requested, sink, nsinks, got>>

\* std::cerr << the formatted record (level, logger name, text).
SinkWrite(t) ==
    /\ pc[t] = "msg"
    /\ SinkPut(t, "msg", FALSE)

\* The same insertion when the output device fails under it.
SinkWriteFails(t) ==
    /\ pc[t] = "msg"
    /\ SinkPut(t, "msg", TRUE)

\* ... << std::endl, and the guard's destructor releases the lock.
SinkEol(t) ==
    /\ pc[t] = "eol"
    /\ SinkPut(t, "eol", FALSE)

\* The log statement is over; the thread goes on.
Return(t) ==
    /\ pc[t] = "done"
    /\ pc' = [pc EXCEPT ![t] = "idle"]
    /\ rec' = [rec EXCEPT ![t] = NullRec]
    /\ ncalls' = [ncalls EXCEPT ![t] = @ + 1]
    /\ UNCHANGED <<all_loggers_, instance, lock_, mutex, cerr, lastInit, requested, sink, nsinks, got, badbit>>

\* Streams still open whose Logger's level is no longer what it was: noted in
\* the stream's record.
MarkChanged(loggers) ==
    [t \in Threads |->
        IF pc[t] = "open" /\ loggers[rec[t].logger_].level # all_loggers_[rec[t].logger_].level
        THEN [rec[t] EXCEPT !.changed = TRUE] ELSE rec[t]]

\* The administrative interface: Registry::getLog(id).setLevel(lvl).
SetLevel(id, lvl) ==
    /\ all_loggers_' = setLevel(all_loggers_, getLog(id), lvl)
    /\ rec' = MarkChanged(all_loggers_')
    /\ requested' = [requested EXCEPT ![getLog(id)] = lvl]
    /\ lastInit' = IF lastInit = <<>> THEN lastInit ELSE [lastInit EXCEPT !.fresh = FALSE]
    /\ UNCHANGED <<instance, lock_, mutex, pc, ncalls, cerr, sink, nsinks, got, badbit>>

\* Registry::initialize(lvl, lock).
Initialize(lvl, k) ==
    /\ lock_' = setLock(lock_, k)
    /\ all_loggers_' = initializeLevels(all_loggers_, lvl)
    /\ rec' = MarkChanged(all_loggers_')
    /\ lastInit' = [level |-> lvl, lock |-> k, fresh |-> TRUE]
    /\ requested' = [i \in 1 .. NumIds |-> lvl]
    /\ UNCHANGED <<instance, mutex, pc, ncalls, cerr, sink, nsinks, got, badbit>>

ArgValues == {7, 42}
ExitPaths == {"normal", "return", "throw"}

\* One thread logging at every severity while levels are adjusted.
Next ==
    \/ \E sev \in Severities : Ctor(1, IdFilter, sev)
    \/ \E v \in ArgValues : Shift(1, v)
    \/ \E how \in ExitPaths : ScopeExit(1, how)
    \/ SinkLock(1)
    \/ SinkWrite(1)
    \/ SinkEol(1)
    \/ Return(1)
    \/ \E lvl \in Levels : SetLevel(IdFilter, lvl)

Spec == Init /\ [][Next]_vars

\* Several threads, each with one log statement on the first or the last
\* Logger, while the process is initialized and levels are adjusted.
MTIds == {IdAdmin, IdUpstream}
MTSeverities == {INFO, ERROR}
MTLevels == {LvlInfo, LvlWarn}

NextMT ==
    \/ \E t \in Threads, id \in MTIds, sev \in MTSeverities : Ctor(t, id, sev)
    \/ \E t \in Threads : ScopeExit(t, "normal")
    \/ \E t \in Threads : SinkLock(t)
    \/ \E t \in Threads : SinkWrite(t)
    \/ \E t \in Threads : SinkEol(t)
    \/ \E id \in MTIds, lvl \in MTLevels : SetLevel(id, lvl)
    \/ \E lvl \in MTLevels, k \in Locks : Initialize(lvl, k)

SpecMT == Init /\ [][NextMT]_vars

\* ------------------------------------------------------------ start of process
\* Before construction: all_loggers_ is empty and getSink() was never called.
InitBoot ==
    /\ all_loggers_ = <<>>
    /\ sink = NoSink
    /\ nsinks = 0
    /\ InitRest

\* The one-time construction of all_loggers_ proceeds by one Logger.
StaticInit ==
    /\ Len(all_loggers_) < NumIds
    /\ LET r == PushLogger(all_loggers_, sink, nsinks) IN
         /\ all_loggers_' = r[1]
         /\ sink' = r[2]
         /\ nsinks' = r[3]
    /\ UNCHANGED <<instance, lock_, mutex, pc, rec, ncalls, cerr, lastInit, requested,
                   got, badbit>>

\* The construction is synchronized with first use: getLog, loggers() and
\* Loggable::log() are served once it is complete.
MainStarted == Len(all_loggers_) = NumIds

\* A thread calls Registry::getSink() itself.
GetSinkCall(t) ==
    /\ pc[t] = "idle"
    /\ LET r == getSink(sink, nsinks) IN
         /\ got' = [got EXCEPT ![t] = r[1]]
         /\ sink' = r[2]
         /\ nsinks' = r[3]
    /\ UNCHANGED <<all_loggers_, instance, lock_, mutex, pc, rec, ncalls, cerr, lastInit,
                   requested, badbit>>

\* The process from its start: construction, and threads making their first
\* calls as early as they are served.
NextBoot ==
    \/ StaticInit
    \/ \E t \in Threads : GetSinkCall(t)
    \/ \E t \in Threads, id \in MTIds : MainStarted /\ Ctor(t, id, INFO)
    \/ \E t \in Threads : ScopeExit(t, "normal")
    \/ \E t \in Threads : SinkLock(t)
    \/ \E t \in Threads : SinkWrite(t)
    \/ \E t \in Threads : SinkEol(t)

SpecBoot == InitBoot /\ [][NextBoot]_vars

\* -------------------------------------------------------- macro statements
\* The formats and values of the statements: "msg {}" and "{}/{}".
MsgFormat == <<"m", "s", "g", " ", "{}">>
PairFormat == <<"{}", "/", "{}">>
Formats == {MsgFormat, PairFormat}
ConnIds == {7, 12}
StreamIds == {3}

\* The replacement fields of a format.
Fields(f) == Len(SelectSeq(f, LAMBDA c : c = "{}"))

\* One of the convenience macros as a statement of a Loggable<id> class, up to
\* the end of its full expression: the stream is built on log() at the
\* macro's severity and the formatted text is appended; a macro that expands
\* to nothing is an empty statement.
Macro(t, id, m, ndebug, format, cid, sid, args) ==
    /\ pc[t] = "idle"
    /\ ncalls[t] < MaxCalls
    /\ LET e == MacroExpansion(m, ndebug) IN
         IF e.type = "none"
         THEN /\ rec' = [rec EXCEPT ![t] = [NullRec EXCEPT !.macro = m]]
              /\ pc' = [pc EXCEPT ![t] = "done"]
              /\ instance' = instance
         ELSE LET r == LoggableLog(instance, id)
                  text == MacroText(e.ctx, format, cid, sid, args)
              IN /\ instance' = r[2]
                 /\ rec' = [rec EXCEPT ![t] =
                        [NullRec EXCEPT !.id = id, !.logger_ = r[1],
                                        !.log_severity_ = MacroSeverity(e),
                                        !.lvl0 = all_loggers_[r[1]].level,
                                        !.seen = Len(all_loggers_),
                                        !.macro = m, !.vlevel = e.level,
                                        !.stream_ = StreamAppendText(<<>>, text),
                                        !.text = text, !.conv = 1,
                                        !.format = format, !.args = args,
                                        !.cid = IF e.ctx = "none" THEN 0 ELSE cid,
                                        !.sid = IF e.ctx = "stream" THEN sid ELSE 0]]
                 /\ pc' = [pc EXCEPT ![t] = "open"]
    /\ UNCHANGED <<all_loggers_, lock_, mutex, ncalls, cerr, lastInit, requested, sink,
                   nsinks, got, badbit>>

\* VLOG(n) in a Loggable<id> class: log(), then VLOG_TO_OBJECT(log(), n).
Vlog(t, id, n) ==
    /\ pc[t] = "idle"
    /\ ncalls[t] < MaxCalls
    /\ LET r == LoggableLog(instance, id) IN
         /\ instance' = r[2]
         /\ rec' = [rec EXCEPT ![t] =
                [NullRec EXCEPT !.id = id, !.logger_ = r[1],
                                !.log_severity_ = VLOG_TO_OBJECT(n),
                                !.lvl0 = all_loggers_[r[1]].level,
                                !.seen = Len(all_loggers_),
                                !.macro = "VLOG", !.vlevel = n]]
    /\ pc' = [pc EXCEPT ![t] = "open"]
    /\ UNCHANGED <<all_loggers_, lock_, mutex, ncalls, cerr, lastInit, requested, sink,
                   nsinks, got, badbit>>

VlogLevels == 0 .. 3
MacroLevels == {LvlTrace, LvlInfo}

\* One thread of a Loggable<Id::filter> class using the macros, in a debug or
\* an NDEBUG build, on an output device that may fail.
NextMacros ==
    \/ \E m \in MacroNames, nd \in BOOLEAN, f \in Formats, c \in ConnIds,
          st \in StreamIds, args \in [1 .. MaxAppends -> ArgValues] :
            /\ Len(args) >= Fields(f)
            /\ Macro(1, IdFilter, m, nd, f, c, st, SubSeq(args, 1, Fields(f)))
    \/ \E n \in VlogLevels : Vlog(1, IdFilter, n)
    \/ \E how \in ExitPaths : ScopeExit(1, how)
    \/ SinkLock(1)
    \/ SinkWrite(1)
    \/ SinkWriteFails(1)
    \/ SinkEol(1)
    \/ Return(1)
    \/ \E lvl \in MacroLevels : SetLevel(IdFilter, lvl)

SpecMacros == Init /\ [][NextMacros]_vars

\* ================================================================== claims
\* The named severities and their ordinal on the scale trace-only < debug-only
\* < info < warning < error < fatal, on which thresholds are compared.
Named == SPD_ONLY_TRACE .. FATAL
Ordinal(sev) == sev - SPD_ONLY_TRACE
\* The stream of thread t has left its scope.
Exited(t) == pc[t] \in {"sink", "msg", "eol", "done"}

\* C1 (as claimed): a log statement whose severity is below the threshold its
\* Logger held when the statement began invokes no text conversion.
C1_NoConversionBelowThreshold ==
    \A t \in Threads :
        (/\ pc[t] # "idle"
         /\ rec[t].log_severity_ \in Named
         /\ Ordinal(rec[t].log_severity_) < rec[t].lvl0)
        => rec[t].conv = 0

C3_OneRecordAtOrAboveThreshold ==
    \A t \in Threads :
        (/\ pc[t] = "done"
         /\ rec[t].exit # "throw"
         /\ ~rec[t].changed
         /\ rec[t].log_severity_ \in Named
         /\ rec[t].lvl0 <= Ordinal(rec[t].log_severity_)
         /\ Len(rec[t].appended) = 1)
        => /\ rec[t].conv = 1
           /\ rec[t].sunk = 1
           /\ rec[t].line # <<>>
           /\ rec[t].line[3] = ToText(rec[t].appended[1])

\* C5: a statement run entirely under the threshold warning gives no sink
\* record at severity info and exactly one at severity error.
C5_AfterSetLevelWarning ==
    \A t \in Threads :
        (pc[t] = "done" /\ rec[t].lvl0 = LvlWarn /\ ~rec[t].changed)
        => /\ rec[t].log_severity_ = INFO => rec[t].sunk = 0
           /\ rec[t].log_severity_ = ERROR => rec[t].sunk = 1

\* C5 witness: after setLevel(warning), a second statement of the thread, at
\* error, has put its one record into the sink.
C5_Witness ==
    \E t \in Threads :
        /\ pc[t] = "done" /\ ncalls[t] = 1
        /\ requested[rec[t].logger_] = LvlWarn
        /\ rec[t].lvl0 = LvlWarn /\ ~rec[t].changed
        /\ rec[t].log_severity_ = ERROR /\ rec[t].sunk = 1

\* C7 (as claimed): whether a record reaches the sink is decided by the
\* threshold its Logger held when the stream was constructed.
C7_DecidedAtConstruction ==
    \A t \in Threads :
        pc[t] = "done"
        => ((rec[t].sunk > 0) <=> should_log(Head(rec[t].calls), rec[t].lvl0))

\* C8 (as claimed): the backend level of the flush is trace, debug, info, warn
\* for the first four severities, the backend's err level for error, and trace
\* for every other value; exactly one call is made.
C8_ClaimedLevel(sev) ==
    CASE sev = SPD_ONLY_TRACE -> LvlTrace
      [] sev = SPD_ONLY_DEBUG -> LvlDebug
      [] sev = INFO -> LvlInfo
      [] sev = WARNING -> LvlWarn
      [] sev = ERROR -> LvlErr
      [] OTHER -> LvlTrace

C8_ErrorToErr ==
    \A t \in Threads :
        Exited(t) => rec[t].calls = <<C8_ClaimedLevel(rec[t].log_severity_)>>

\* C8 (amended): as claimed, except that error goes to the backend's critical
\* level, one above its err level.
C8_AmendedLevel(sev) ==
    IF sev = ERROR THEN LvlCritical ELSE C8_ClaimedLevel(sev)

C8_ErrorToCritical ==
    \A t \in Threads :
        Exited(t) => rec[t].calls = <<C8_AmendedLevel(rec[t].log_severity_)>>

\* C8 witness: a flushed record of severity error, called at critical, and in
\* the sink although the threshold is critical.
C8_Witness ==
    \E t \in Threads :
        /\ pc[t] = "done" /\ rec[t].log_severity_ = ERROR
        /\ rec[t].calls = <<LvlCritical>>
        /\ rec[t].lvl0 = LvlCritical /\ ~rec[t].changed /\ rec[t].sunk = 1

\* C10: set_level stores exactly the requested level (no torn or third value);
\* a statement's emit decision is the filter's answer for the level the Logger
\* holds at the statement's one read of it; and the statement's exit is never
\* disabled, whatever setLevel calls are made.
C10_Decision ==
    \A t \in Threads :
        (pc[t] = "open" /\ pc'[t] # "open")
        => rec'[t].pending = Passing(rec'[t].calls, requested[rec[t].logger_])

C10_SetLevelSafe ==
    /\ [](\A i \in 1 .. NumIds : all_loggers_[i].level = requested[i])
    /\ [](\A t \in Threads : pc[t] = "open" => ENABLED ScopeExit(t, "normal"))
    /\ [][C10_Decision]_vars

\* C10 witness: the level was set between construction and exit, to a value
\* that reverses the decision, and the record followed the new value.
C10_Witness ==
    \E t \in Threads :
        /\ pc[t] = "done" /\ rec[t].changed
        /\ rec[t].log_severity_ = INFO
        /\ rec[t].lvl0 = LvlWarn /\ rec[t].sunk = 1

\* A thread has begun writing a record to std::cerr.
Wrote(t) == pc[t] \in {"msg", "eol"} \/ rec[t].sunk > 0

\* std::cerr holds complete lines only, but for a last one still being written:
\* every record's text is directly followed by its own end of line.
CompleteLines(out) ==
    \A i \in 1 .. Len(out) :
        /\ out[i][2] = "msg" => (i = Len(out) \/ out[i + 1] = <<out[i][1], "eol">>)
        /\ out[i][2] = "eol" => (i > 1 /\ out[i - 1] = <<out[i][1], "msg">>)

\* C4: when every write so far began with one and the same lock attached to the sink,
\* the output is complete lines with no chunk of another record inside a line;
\* each record is the expected one (level, Logger name, text); and once all
\* threads are through, there are as many lines as records sent to the sink.
C4_LockedSinkNoInterleaving ==
    \A k \in Locks :
        (\A t \in Threads : Wrote(t) => rec[t].attached = k)
        => /\ CompleteLines(cerr)
           /\ \A t \in Threads :
                rec[t].sunk > 0
                => rec[t].line = <<Dtor(rec[t].log_severity_)[1], rec[t].id, rec[t].stream_>>
           /\ (\A t \in Threads : pc[t] = "done")
                => Len(cerr) = 2 * Cardinality({t \in Threads : rec[t].sunk = 1})

\* C4 witness: every thread has put its record into the sink under the same
\* lock, and std::cerr holds one complete line for each.
C4_Witness ==
    /\ lock_ # NoLock
    /\ \A t \in Threads :
          pc[t] = "done" /\ rec[t].sunk = 1 /\ rec[t].attached = lock_
    /\ Len(cerr) = 2 * NumThreads
    /\ CompleteLines(cerr)

\* C6: the Logger a statement of Loggable<id> works on is the one
\* Registry::getLog(id) gives, it is the Logger named id, the cached reference
\* of Loggable<id> never differs from it, and two statements work on the same
\* Logger exactly if they have the same Id; setLevel and initialize calls in
\* between change nothing of this.
C6_StableInjectiveLookup ==
    /\ \A id \in Ids : instance[id] # NoRef => instance[id] = getLog(id)
    /\ \A t \in Threads :
          pc[t] # "idle"
          => /\ rec[t].logger_ = getLog(rec[t].id)
             /\ all_loggers_[rec[t].logger_].name = rec[t].id
    /\ \A t1, t2 \in Threads :
          (pc[t1] # "idle" /\ pc[t2] # "idle")
          => ((rec[t1].id = rec[t2].id) <=> (rec[t1].logger_ = rec[t2].logger_))
    /\ \A i, j \in Ids : getLog(i) = getLog(j) => i = j

\* C6 witness: two threads looked up the same Id, one before and one after a
\* level change, and hold the same Logger, while the other Id was looked up too.
C6_Witness ==
    \E t1, t2 \in Threads :
        /\ t1 # t2 /\ pc[t1] # "idle" /\ pc[t2] # "idle"
        /\ rec[t1].id = IdUpstream /\ rec[t2].id = IdUpstream
        /\ rec[t1].logger_ = rec[t2].logger_
        /\ rec[t1].lvl0 # rec[t2].lvl0
        /\ instance[IdAdmin] = NoRef /\ instance[IdUpstream] # NoRef

\* C9: right after initialize(level, lock), and until a setLevel, every Logger
\* of the registry has that level; the sink's lock is the one given; and every
\* write begun after it takes that lock, whenever the stream was constructed.
C9_WritesTakeLock ==
    \A t \in Threads :
        (pc[t] = "sink" /\ pc'[t] = "msg" /\ lastInit # <<>>)
        => /\ rec'[t].guard = lastInit.lock
           /\ mutex[lastInit.lock] = 0
           /\ mutex'[lastInit.lock] = t

C9_InitializeConfiguresAll ==
    /\ [](lastInit # <<>>
            => /\ lock_ = lastInit.lock
               /\ lastInit.fresh
                    => \A i \in 1 .. NumIds : all_loggers_[i].level = lastInit.level)
    /\ [][C9_WritesTakeLock]_vars

\* C9 witness: a stream constructed before initialize (its Logger still had
\* another level then) is being written under the lock initialize attached,
\* while all Loggers report the level initialize gave.
C9_Witness ==
    \E t \in Threads :
        /\ lastInit # <<>> /\ lastInit.fresh
        /\ pc[t] = "msg" /\ rec[t].changed
        /\ rec[t].lvl0 # lastInit.level
        /\ rec[t].guard = lastInit.lock
        /\ \A i \in 1 .. NumIds : all_loggers_[i].level = lastInit.level

\* ---------------------------------------------------------------------
\* A registry as a caller must find it: one Logger per Id, each on the sink
\* that getSink() hands out.
FullRegistry ==
    /\ Len(all_loggers_) = NumIds
    /\ sink # NoSink
    /\ \A i \in 1 .. NumIds :
          all_loggers_[i].name = i - 1 /\ all_loggers_[i].sink = sink

C12_RegistryFixed ==
    /\ Len(all_loggers_) = NumIds
    /\ all_loggers_[1].name = IdAdmin
    /\ all_loggers_[NumIds].name = IdUpstream
    /\ \A i \in 1 .. NumIds :
          /\ DOMAIN all_loggers_[i] = {"name", "level", "sink"}
          /\ all_loggers_[i].name = i - 1
          /\ all_loggers_[i].sink = sink
          /\ all_loggers_[i].level \in Levels
    /\ \A i, j \in 1 .. NumIds :
          all_loggers_[i].name = all_loggers_[j].name => i = j

\* initialize, then a setLevel that left two Loggers at different levels, and
\* a record emitted.
C12_Witness ==
    /\ lastInit # <<>> /\ ~lastInit.fresh
    /\ all_loggers_[getLog(IdAdmin)].level # all_loggers_[getLog(IdUpstream)].level
    /\ \E t \in Threads : pc[t] = "done" /\ rec[t].sunk = 1

\* C13: one sink instance exists: every call of Registry::getSink(), the first
\* calls of different threads included, returns the same instance, every Logger
\* is built on it and every record is written through it.
C13_OneSink ==
    /\ nsinks <= 1
    /\ \A t \in Threads : got[t] # NoSink => got[t] = sink
    /\ \A i \in 1 .. Len(all_loggers_) : all_loggers_[i].sink = sink
    /\ \A t \in Threads : rec[t].via # NoSink => rec[t].via = sink

\* Both threads called getSink() themselves and one then wrote a record.
C13_Witness ==
    /\ got[1] # NoSink /\ got[2] = got[1]
    /\ \E t \in Threads :
          pc[t] = "done" /\ rec[t].sunk = 1 /\ rec[t].via = got[t]

\* C14: a failing output device never alters or aborts the caller: the failure
\* stays inside the sink (std::cerr's error state), no exception leaves the
\* log statement, whatever way its stream left scope, and the statement can
\* always go on to its end.
C14_SinkFailureAbsorbed ==
    \A t \in Threads :
        /\ pc[t] # "terminated"
        /\ ~rec[t].threw
        /\ pc[t] = "msg" => ENABLED SinkWrite(t)
        /\ pc[t] = "eol" => ENABLED SinkEol(t)
        /\ pc[t] = "done" => ENABLED Return(t) \/ ncalls[t] = MaxCalls

\* The device failed under a record flushed while an exception unwound the
\* stream's scope, and the statement completed.
C14_Witness ==
    /\ pc[1] = "done"
    /\ badbit
    /\ rec[1].exit = "throw"
    /\ rec[1].sunk = 1
    /\ cerr = <<>>

\* The Loggers' state and the sink's lock after initialize(lvl, k) alone, that
\* is, applied to the registry as constructed.
AfterInitializeAlone(lvl, k) ==
    <<initializeLevels(StaticInitFrom(<<>>, NoSink, 0)[1], lvl), setLock(NoLock, k)>>

\* C15: whatever initialize and setLevel calls came before, after
\* initialize(l2, k2) every Logger and the sink's lock are as after
\* initialize(l2, k2) alone; so too when the call before it was the same.
C15_InitializeOverwrites ==
    (lastInit # <<>> /\ lastInit.fresh)
        => <<all_loggers_, lock_>> = AfterInitializeAlone(lastInit.level, lastInit.lock)

\* A record was written under another lock and on a Logger at another level
\* than the last initialize gave: an earlier configuration was overwritten.
C15_Witness ==
    /\ lastInit # <<>> /\ lastInit.fresh
    /\ \E t \in Threads :
          /\ pc[t] = "done" /\ rec[t].sunk = 1
          /\ rec[t].attached # NoLock /\ rec[t].attached # lastInit.lock
          /\ rec[t].lvl0 # lastInit.level
    /\ <<all_loggers_, lock_>> = AfterInitializeAlone(lastInit.level, lastInit.lock)

\* The text forms of the values, one after the other in their order.
RECURSIVE TextOf(_)
TextOf(values) ==
    IF values = <<>> THEN <<>> ELSE ToText(Head(values)) \o TextOf(Tail(values))

\* Whatever a stream has flushed is the concatenation of what was appended.
FlushedTextIsConcatenation ==
    \A t \in Threads :
        /\ pc[t] # "idle" => rec[t].stream_ = TextOf(rec[t].appended)
        /\ rec[t].line # <<>> => rec[t].line[3] = TextOf(rec[t].appended)

\* C16 (as claimed): a stream enabled by the threshold of its Logger flushes
\* one record whose text is the concatenation of the text forms of the values
\* appended, in the order appended; with nothing appended, one record with the
\* empty text.
C16_EnabledStreamFlushesConcatenation ==
    \A t \in Threads :
        (/\ pc[t] = "done"
         /\ ~rec[t].changed
         /\ rec[t].log_severity_ \in Named
         /\ rec[t].lvl0 <= Ordinal(rec[t].log_severity_))
        => /\ rec[t].sunk = 1
           /\ rec[t].line # <<>>
           /\ rec[t].line[3] = TextOf(rec[t].appended)

\* The macros with a connection context and those with a stream context.
ConnMacros == {"conn_log_trace", "conn_log_debug", "conn_log_info"}
StreamMacros == {"stream_log_trace", "stream_log_debug", "stream_log_info"}

\* The statement of thread t has built its stream and formatted its text.
Formatted(t) == pc[t] # "idle" /\ rec[t].logger_ # NoRef /\ rec[t].macro \in MacroNames

C17_Text ==
    \A t \in Threads :
        /\ (Formatted(t) /\ rec[t].macro \in ConnMacros)
            => /\ rec[t].text = <<"[", "C">> \o ToText(rec[t].cid) \o <<"]", " ">>
                                  \o fmt_format(rec[t].format, rec[t].args)
               /\ (rec[t].cid = 7 /\ rec[t].format = MsgFormat /\ rec[t].args = <<42>>)
                    => rec[t].text =
                         <<"[", "C", "7", "]", " ", "m", "s", "g", " ", "4", "2">>
        /\ (Formatted(t) /\ rec[t].macro \in StreamMacros)
            => /\ rec[t].text = <<"[", "C">> \o ToText(rec[t].cid) \o <<"]", "[", "S">>
                                  \o ToText(rec[t].sid) \o <<"]", " ">>
                                  \o fmt_format(rec[t].format, rec[t].args)
               /\ (rec[t].cid = 7 /\ rec[t].sid = 3 /\ rec[t].format = MsgFormat
                     /\ rec[t].args = <<42>>)
                    => rec[t].text =
                         <<"[", "C", "7", "]", "[", "S", "3", "]", " ", "m", "s", "g",
                           " ", "4", "2">>

C17_Frame ==
    \A t \in Threads :
        (pc[t] = "idle" /\ pc'[t] = "open" /\ rec'[t].macro \in ConnMacros \cup StreamMacros)
        => UNCHANGED <<all_loggers_, lock_, mutex, sink, nsinks, cerr, badbit, requested>>

\* C17: the connection form of a message is "[C<id>] " followed by the
\* formatted message ("[C7] msg 42"), the stream form "[C<connection
\* id>][S<stream id>] " followed by it ("[C7][S3] msg 42"), for every id,
\* format and arguments; computing it changes no Registry, Logger or sink state.
C17_ContextPrefix ==
    /\ []C17_Text
    /\ [][C17_Frame]_vars

\* conn_log_info("msg {}", connection 7, 42) has put "[C7] msg 42" into its
\* stream and the record is in the sink.
C17_Witness ==
    /\ pc[1] = "done"
    /\ rec[1].macro = "conn_log_info"
    /\ rec[1].stream_ = <<"[", "C", "7", "]", " ", "m", "s", "g", " ", "4", "2">>
    /\ rec[1].sunk = 1
    /\ rec[1].line[3] = rec[1].stream_

\* What a setLevel(lvl) on the Logger of id leaves alone.
C18_Frame ==
    \A id \in MTIds, lvl \in MTLevels :
        SetLevel(id, lvl)
        => /\ Len(all_loggers_') = Len(all_loggers_)
           /\ all_loggers_'[getLog(id)] = [all_loggers_[getLog(id)] EXCEPT !.level = lvl]
           /\ \A i \in 1 .. NumIds : i # getLog(id) => all_loggers_'[i] = all_loggers_[i]
           /\ lock_' = lock_ /\ sink' = sink /\ mutex' = mutex
           /\ \A t \in Threads :
                 (pc[t] = "open" /\ rec[t].logger_ # getLog(id))
                 => /\ rec'[t] = rec[t]
                    /\ Passing(Dtor(rec[t].log_severity_), all_loggers_'[rec[t].logger_].level)
                         = Passing(Dtor(rec[t].log_severity_), all_loggers_[rec[t].logger_].level)

\* C18: setLevel on one Logger changes that Logger's threshold and nothing
\* else: every other Logger, the membership and order of the registry and the
\* sink's lock stay as they were, and an open log statement on another Logger
\* is emitted or suppressed as it would have been.
C18_SetLevelChangesOneLogger == [][C18_Frame]_vars

\* With no initialize ever run, the admin Logger was set to warning and
\* suppressed an info record, while upstream, still at info, emitted one.
C18_Witness ==
    /\ lastInit = <<>>
    /\ all_loggers_[getLog(IdAdmin)].level = LvlWarn
    /\ all_loggers_[getLog(IdUpstream)].level = LvlInfo
    /\ \E t1, t2 \in Threads :
          /\ pc[t1] = "done" /\ rec[t1].id = IdAdmin /\ rec[t1].log_severity_ = INFO
          /\ rec[t1].lvl0 = LvlWarn /\ rec[t1].sunk = 0
          /\ pc[t2] = "done" /\ rec[t2].id = IdUpstream /\ rec[t2].log_severity_ = INFO
          /\ ~rec[t2].changed /\ rec[t2].sunk = 1

\* The severity at which the claim has each macro route, and its backend level.
C19_ClaimedSeverity(m, n) ==
    CASE m \in {"log_debug", "conn_log_debug", "stream_log_debug"} -> SPD_ONLY_DEBUG
      [] m \in {"log_trace", "conn_log_trace", "stream_log_trace"} -> SPD_ONLY_TRACE
      [] m \in {"conn_log_info", "stream_log_info"} -> INFO
      [] OTHER -> IF n = 1 THEN SPD_ONLY_DEBUG ELSE SPD_ONLY_TRACE

C19_ClaimedLevel(sev) ==
    CASE sev = SPD_ONLY_DEBUG -> LvlDebug
      [] sev = SPD_ONLY_TRACE -> LvlTrace
      [] OTHER -> LvlInfo

\* C19: every macro of a Loggable<id> class builds its stream on the Logger
\* that getLog(id) returns, at a fixed severity: debug-only for log_debug,
\* conn/stream_log_debug and VLOG(1); trace-only for log_trace,
\* conn/stream_log_trace and VLOG(n), n other than 1; info for conn_log_info and
\* stream_log_info. The statement is never cut short and gives the sink at
\* most one record, of that Logger and level.
C19_MacroRouting ==
    \A t \in Threads :
        /\ pc[t] # "terminated"
        /\ rec[t].sunk <= 1
        /\ (pc[t] # "idle" /\ rec[t].logger_ # NoRef)
            => /\ rec[t].macro \in MacroNames \cup {"VLOG"}
               /\ rec[t].logger_ = getLog(rec[t].id)
               /\ rec[t].log_severity_ = C19_ClaimedSeverity(rec[t].macro, rec[t].vlevel)
               /\ Exited(t) => rec[t].calls = <<C19_ClaimedLevel(rec[t].log_severity_)>>
               /\ rec[t].line # <<>>
                    => /\ rec[t].line[1] = C19_ClaimedLevel(rec[t].log_severity_)
                       /\ rec[t].line[2] = rec[t].id
        /\ (pc[t] # "idle" /\ rec[t].logger_ = NoRef)
            => pc[t] = "done" /\ rec[t].sunk = 0

\* log_debug, with the Logger at trace, has put its one record into the sink
\* at the backend's debug level.
C19_Witness ==
    /\ pc[1] = "done"
    /\ rec[1].macro = "log_debug"
    /\ rec[1].logger_ = getLog(IdFilter)
    /\ rec[1].lvl0 = LvlTrace
    /\ rec[1].sunk = 1
    /\ rec[1].line[1] = LvlDebug

\* C20 (as claimed): filtering is monotone in the order trace-only <
\* debug-only < info < warning < error < fatal: when a record at severity s
\* has reached the sink under a threshold, the destructor's call for any higher
\* severity passes the filter under the same threshold; so fatal is emitted
\* whenever error is.
C20_MonotoneFiltering ==
    \A t \in Threads :
        (/\ pc[t] = "done"
         /\ ~rec[t].changed
         /\ rec[t].log_severity_ \in Named
         /\ rec[t].sunk >= 1)
        => \A s2 \in Named :
              Ordinal(s2) > Ordinal(rec[t].log_severity_)
              => Passing(Dtor(s2), rec[t].lvl0) # <<>>

====
